---- MODULE Spec2Model ----
(***************************************************************************)
(* The aiming-and-shot presentation engine of the canonical GameCanvas     *)
(* (src/unnamed/part_009): the render loop, the pointer handlers, the      *)
(* shotResult handler and the room snapshot they all read.                 *)
(*                                                                         *)
(* Lengths are CSS pixels, times are milliseconds, both held as integers.  *)
(* The aim timer is a binary fixed-point number with FracBits fractional   *)
(* bits (the code holds an IEEE double; the rounding of 1/totalFrames is   *)
(* kept, the width is reduced).                                            *)
(***************************************************************************)
EXTENDS Integers, Sequences, FiniteSets, TLC

VARIABLES
    playerId,        \* useSocketStore.playerId: NoId until the socket connects
    room,            \* useSocketStore.room and roomStateRef.current
    wind,            \* wind.current
    isAiming,        \* isAiming.current
    aimTimer,        \* aimTimer.current, fixed point: One is 1.0
    shouldAutoFire,  \* shouldAutoFire.current
    reticlePos,      \* reticlePos.current
    momentum,        \* momentum.current
    inputBuffer,     \* inputBuffer.current
    lastInputPos,    \* lastInputPos.current
    arrowFlight,     \* arrowFlight.current
    arrowImpact,     \* arrowImpact.current
    postShotZoom,    \* postShotZoom.current
    pinnedArrows,    \* pinnedArrows.current
    boardShake,      \* boardShake.current.decay, in hundredths
    zoomLevel,       \* zoomLevel.current, in hundredths
    releaseZoomBump, \* releaseZoomBump.current, in hundredths
    controls,        \* controlsRef.current: aimZoom and resultZoom in hundredths, maxArrows
    pendingScore,    \* pendingScore.current
    lastScore,       \* lastScore.current
    net,             \* the socket: requests awaiting their result, the aim position of
                     \* the newest of them, results delivered
    hist             \* history: requests emitted and aiming ticks seen in the aiming phase
                     \* begun last, flights landed, arrows pinned, and which, in order

vars == <<playerId, room, wind, isAiming, aimTimer, shouldAutoFire, reticlePos,
          momentum, inputBuffer, lastInputPos, arrowFlight, arrowImpact,
          postShotZoom, pinnedArrows, boardShake, zoomLevel, releaseZoomBump, controls,
          pendingScore, lastScore, net, hist>>

----------------------------------------------------------------------------
(* Bounds of the model *)

MaxOutstanding == 2 \* 'shoot' requests the server has not answered yet
MaxResults == 1     \* shotResult events the server may deliver
MaxSoloResults == 2 \* the same, in the solo session of SpecSolo
MaxPinResults == 4  \* the same, in the spectated shots of SpecPins
MaxSpeedTicks == 3  \* aiming ticks of SpecSpeed
minSpeed == 4       \* speed bounds of the speed-bounded reticle, in tenths of a pixel per tick
maxSpeed == 40
steeringPowerPct == 10
FracBits == 4       \* fractional bits of the aim timer
TimerFrames == 3    \* controls.timerSeconds * 60
flightDuration == 200       \* controls.flightDuration, ms
slowMoThresholdPct == 50    \* controls.slowMoThreshold * 100
slowMoSpeedPct == 80        \* controls.slowMoSpeed * 100
holdTimeTenths == 5         \* controls.holdTime * 10
maxArrows == 2              \* controls.maxArrows
maxRoundsCfg == 1           \* Room.maxRounds of the multiplayer snapshots
soloSeconds == 60           \* Room.timeRemaining of a running solo game
innerHeight == 100          \* window.innerHeight
ShortFrame == 20            \* ms between two frames on a display faster than 20 Hz
innerWidth == 400           \* window.innerWidth
arcHeightPct == 20          \* controls.arcHeightFactor * 100
windDriftXFactor == 6       \* controls.windDriftXFactor
windDriftYFactor == 3       \* controls.windDriftYFactor
dragSensitivityPct == 50    \* controls.dragSensitivity * 100
frictionPct == 50           \* controls.friction * 100

(* Program constants *)

DeltaCap == 50
ImpactTotalFrames == 12
SoloHoldFrames == 48
maxR == 160
easePct == 6          \* zoom ease per tick, percent of the gap
bumpFull == 100       \* releaseZoomBump on a shot result, hundredths
bumpFloor == 1        \* the bump is applied while above 0.01
bumpGainPct == 3      \* share of the bump added to the desired zoom, percent
bumpDecayPct == 92    \* decay of the bump per tick, percent
aimZoomDefault == 200     \* controls.aimZoom as shipped, hundredths
resultZoomDefault == 300  \* controls.resultZoom as shipped, hundredths
zoomMin == 100            \* the least value the panel allows for either zoom
maxArrowsMin == 1         \* the least value the panel allows for maxArrows
targetRadius == 100       \* handleStart: radius of the target the spawn slots lie on
spawnFactorLo == 60       \* handleStart: least radial factor of the spawn, in hundredths
spawnFactorHi == 100      \* handleStart: bound of the radial factor of the spawn, in hundredths
initArcHeight == 180      \* arcHeight before the first frame of a flight resolves it
startBelow == 50          \* the arrow starts this far below the bottom edge
horizonPct == 55          \* horizonY = h * 0.55
targetBelowHorizon == 80  \* targetCenterY = horizonY + 80
trailMax == 8             \* trail points kept

----------------------------------------------------------------------------
(* Values *)

NoId == "undefined"
Me == "me"
Other == "other"
NoRoom == [mode |-> "null"]
NoPos == <<>>
NoScore == <<>>
Origin == <<0, 0>>

Min(a, b) == IF a < b THEN a ELSE b
Max(a, b) == IF a > b THEN a ELSE b

\* a * num / den, rounded toward zero
Scale(a, num, den) == IF a < 0 THEN -((-a * num) \div den) ELSE (a * num) \div den

\* a / b rounded to nearest, a and b positive
RoundDiv(a, b) == (2 * a + b) \div (2 * b)

\* a / b rounded away from zero, b positive
CeilDiv(a, b) == IF a < 0 THEN -((-a + b - 1) \div b) ELSE (a + b - 1) \div b

RECURSIVE Pow2(_)
Pow2(n) == IF n = 0 THEN 1 ELSE 2 * Pow2(n - 1)

\* Floor of the square root, two bits of n per step
RECURSIVE ISqrt(_)
ISqrt(n) ==
    IF n < 2 THEN n
    ELSE LET r == 2 * ISqrt(n \div 4)
         IN  IF (r + 1) * (r + 1) > n THEN r ELSE r + 1
CeilSqrt(n) == IF ISqrt(n) * ISqrt(n) = n THEN ISqrt(n) ELSE ISqrt(n) + 1

One == Pow2(FracBits)

(* Inputs *)

SoloRooms ==
    { [mode |-> "solo", players |-> <<Me>>, currentTurn |-> Me, round |-> 1,
       maxRounds |-> maxRoundsCfg, timeRemaining |-> t, wind |-> Origin]
      : t \in {0, soloSeconds} }

MultiRooms ==
    { [mode |-> "multiplayer", players |-> <<Me, Other>>, currentTurn |-> c, round |-> r,
       maxRounds |-> maxRoundsCfg, timeRemaining |-> 0, wind |-> Origin]
      : c \in {Me, Other}, r \in {maxRoundsCfg, maxRoundsCfg + 1} }
    \ { [mode |-> "multiplayer", players |-> <<Me, Other>>, currentTurn |-> Other,
          round |-> maxRoundsCfg + 1, maxRounds |-> maxRoundsCfg, timeRemaining |-> 0,
          wind |-> Origin] }

Rooms == SoloRooms \cup MultiRooms

RawDeltas == {DeltaCap, 2 * DeltaCap + 20}      \* ms between two frames
\* 'shotResult' payloads: this client's shot, and the other player's with an empty path
ShotResults ==
    { [player |-> Me, path |-> << <<10, -5>>, <<30, 40>> >>, score |-> 7],
      [player |-> Other, path |-> <<>>, score |-> 3] }
PointerPositions == { <<0, innerHeight \div 2>>, <<0, (innerHeight * 3) \div 4>> }
MovePositions == { <<0, (innerHeight * 3) \div 4>> }
SpawnSlots == { <<80, 0>> }
Drifts == { Origin }                            \* idle drift of one tick, in whole pixels

----------------------------------------------------------------------------
(* Derived values of the component function *)

isSoloActive(r) == r # NoRoom /\ r.mode = "solo" /\ r.timeRemaining > 0

currentTurnOf(r) == IF r = NoRoom THEN NoId ELSE r.currentTurn

isMyTurn == isSoloActive(room) \/ currentTurnOf(room) = playerId

isGameOver(r) ==
    /\ r # NoRoom
    /\ IF r.mode = "solo" THEN r.timeRemaining <= 0 ELSE r.round > r.maxRounds

----------------------------------------------------------------------------
(* The steps of one render tick, in the order render runs them *)

\* Reticle physics while aiming: drag input, friction, idle drift, integrate, clamp
normSq(p) == p[1] * p[1] + p[2] * p[2]

\* Variant: each coordinate is clamped on its own
clampToBox(p) == << Max(-maxR, Min(maxR, p[1])), Max(-maxR, Min(maxR, p[2])) >>

clampToRadius(p) ==
    LET d2 == p[1] * p[1] + p[2] * p[2]
        dist == CeilSqrt(d2)
    IN  IF d2 > maxR * maxR
        THEN << Scale(p[1], maxR, dist), Scale(p[2], maxR, dist) >>
        ELSE p

\* Variant: the tick leaves the input buffer as it is
aimPhysicsKeepBuffer(pos, m, buf, drift) ==
    LET m1 == << m[1] + Scale(buf[1], dragSensitivityPct, 100),
                 m[2] + Scale(buf[2], dragSensitivityPct, 100) >>
        m2 == << Scale(m1[1], frictionPct, 100), Scale(m1[2], frictionPct, 100) >>
        m3 == << m2[1] + drift[1], m2[2] + drift[2] >>
        p1 == << pos[1] + m3[1], pos[2] + m3[2] >>
    IN  [pos |-> clampToRadius(p1), m |-> m3, buf |-> buf, last |-> lastInputPos]

aimPhysics(pos, m, buf, drift) ==
    LET m1 == << m[1] + Scale(buf[1], dragSensitivityPct, 100),
                 m[2] + Scale(buf[2], dragSensitivityPct, 100) >>
        m2 == << Scale(m1[1], frictionPct, 100), Scale(m1[2], frictionPct, 100) >>
        m3 == << m2[1] + drift[1], m2[2] + drift[2] >>
        p1 == << pos[1] + m3[1], pos[2] + m3[2] >>
    IN  [pos |-> clampToRadius(p1), m |-> m3, buf |-> Origin, last |-> lastInputPos]

\* Variant: off turn the reticle is left where it is
reticleStepKeep(drift) ==
    IF isMyTurn /\ isAiming
    THEN aimPhysics(reticlePos, momentum, inputBuffer, drift)
    ELSE [pos |-> reticlePos, m |-> momentum, buf |-> inputBuffer, last |-> lastInputPos]

\* Reticle section of the tick: physics while aiming, reset when it is not the local turn
reticleStep(drift) ==
    IF isMyTurn /\ isAiming
    THEN aimPhysics(reticlePos, momentum, inputBuffer, drift)
    ELSE IF ~isMyTurn
         THEN [pos |-> Origin, m |-> Origin, buf |-> Origin, last |-> NoPos]
         ELSE [pos |-> reticlePos, m |-> momentum, buf |-> inputBuffer, last |-> lastInputPos]

\* Variant: the hold runs down three frames per tick
holdStepFast(psz) ==
    IF psz.active
    THEN [psz EXCEPT !.timer = @ - 3, !.active = (psz.timer - 3 > 0)]
    ELSE psz

\* Post-shot hold countdown of the zoom section
holdStep(psz) ==
    IF psz.active
    THEN [psz EXCEPT !.timer = @ - 1, !.active = (psz.timer - 1 > 0)]
    ELSE psz

\* Variant: the ease moves by more than the whole gap
easeOvershoot(gap) == 2 * gap

\* (desiredZoom - zoomLevel) * 0.06, in hundredths; a nonzero gap always moves
ease(gap) == CeilDiv(gap * easePct, 100)

\* Zoom phase of the tick: hold, else flight (zooming only in its last 30%), else aiming,
\* else neutral; the focus is an offset from the target centre
zoomPhase(psz, f, aiming, c) ==
    IF psz.active THEN [zoom |-> c.resultZoom, focus |-> psz.hitPoint]
    ELSE IF f.active
    THEN IF 10 * f.elapsed > 7 * f.duration
         THEN [zoom |-> 100 + ((c.resultZoom - 100) * (10 * f.elapsed - 7 * f.duration))
                                  \div (3 * f.duration),
               focus |-> f.hitPoint]
         ELSE [zoom |-> 100, focus |-> Origin]
    ELSE IF aiming THEN [zoom |-> c.aimZoom, focus |-> Origin]
    ELSE [zoom |-> 100, focus |-> Origin]

\* Release zoom bump: while above 0.01 it adds 3% of itself and decays by 0.92
bumpStep(bump) ==
    IF bump > bumpFloor
    THEN [add |-> (bump * bumpGainPct) \div 100, bump |-> (bump * bumpDecayPct) \div 100]
    ELSE [add |-> 0, bump |-> bump]

\* desiredZoom of the tick
desiredZoom == zoomPhase(postShotZoom, arrowFlight, isMyTurn /\ isAiming, controls).zoom
                   + bumpStep(releaseZoomBump).add

\* Variant: at capacity the newest arrow is the one dropped
pinArrowKeepOldest(arrows, impact) ==
    LET next == Append(arrows, [point |-> impact.hitPoint, playerIndex |-> impact.playerIndex])
    IN  IF Len(next) > controls.maxArrows THEN SubSeq(next, 1, controls.maxArrows) ELSE next

\* Impact animation: advance one frame, pin the arrow on the last one
pinArrow(arrows, impact) ==
    LET next == Append(arrows, [point |-> impact.hitPoint, playerIndex |-> impact.playerIndex])
    IN  IF Len(next) > controls.maxArrows
        THEN SubSeq(next, Len(next) - controls.maxArrows + 1, Len(next))
        ELSE next

impactStep(impact, arrows) ==
    IF impact.active
    THEN LET frame == impact.frame + 1
             done == frame >= impact.totalFrames
         IN  [impact |-> [impact EXCEPT !.frame = frame, !.active = ~done],
              arrows |-> IF done THEN pinArrow(arrows, impact) ELSE arrows,
              pinned |-> done]
    ELSE [impact |-> impact, arrows |-> arrows, pinned |-> FALSE]

\* Variant: the elapsed time saturates one millisecond short of the duration
flightAdvanceShort(f, deltaTime) ==
    LET slow == f.elapsed * 100 > slowMoThresholdPct * f.duration
        step == IF slow THEN (deltaTime * slowMoSpeedPct) \div 100 ELSE deltaTime
    IN  [f EXCEPT !.elapsed = Min(@ + step, f.duration - 1)]

\* Flight: slow-mo time advance
flightAdvance(f, deltaTime) ==
    LET slow == f.elapsed * 100 > slowMoThresholdPct * f.duration
        step == IF slow THEN (deltaTime * slowMoSpeedPct) \div 100 ELSE deltaTime
    IN  [f EXCEPT !.elapsed = @ + step]

\* Board shake: exponential decay, cut to 0 below 0.01
shakeStep(decay) ==
    LET next == (decay * 88) \div 100
    IN  IF decay > 0 THEN (IF next < 1 THEN 0 ELSE next) ELSE decay

\* Screen geometry of the frame
centerX == innerWidth \div 2
targetCenter == << centerX, (innerHeight * horizonPct) \div 100 + targetBelowHorizon >>

\* First frame of a flight: start, end and arc height are resolved from the hit point
resolveFlight(f) ==
    IF f.elapsed = 0
    THEN LET start == << centerX, innerHeight + startBelow >>
             end == << targetCenter[1] + f.hitPoint[1], targetCenter[2] + f.hitPoint[2] >>
             dx == end[1] - start[1]
             dy == end[2] - start[2]
         IN  [f EXCEPT !.start = start, !.end = end,
                       !.arcHeight = (ISqrt(dx * dx + dy * dy) * arcHeightPct) \div 100]
    ELSE f

\* Variant: the arc is a half parabola that does not come back down
gravityArcRising(arcHeight, n, d) == (2 * arcHeight * n) \div d

\* -4 * arcHeight * t * (t - 1) at t = n / d
gravityArc(arcHeight, n, d) == (4 * arcHeight * n * (d - n)) \div (d * d)

\* Projectile position at t = n / d: linear interpolation, gravity arc, wind drift
flightPos(f, n, d) ==
    << f.start[1] + Scale((f.end[1] - f.start[1]) * n, 1, d)
                  + Scale(f.wind[1] * windDriftXFactor * n * n, 1, d * d),
       f.start[2] + Scale((f.end[2] - f.start[2]) * n, 1, d)
                  - gravityArc(f.arcHeight, n, d)
                  + Scale(f.wind[2] * windDriftYFactor * n * n, 1, d * d) >>

\* Motion trail: the position of the frame is pushed, at most 8 points are kept
trailPush(f) ==
    LET next == Append(f.trail, flightPos(f, Min(f.elapsed, f.duration), f.duration))
    IN  [f EXCEPT !.trail = IF Len(next) > trailMax THEN Tail(next) ELSE next]

\* Variant: the hold of the configuration in every game mode
holdFramesAnyMode(r) == (60 * holdTimeTenths) \div 10

holdFrames(r) ==
    IF r # NoRoom /\ r.mode = "solo" THEN SoloHoldFrames ELSE (60 * holdTimeTenths) \div 10

\* Variant: the countdown without its floor
timerStepNoFloor(t) == t - RoundDiv(One, TimerFrames)

\* Aim timer: one tick of the countdown, floored at 0
timerStep(t) == Max(0, t - RoundDiv(One, TimerFrames))

----------------------------------------------------------------------------
(* Initial state: the refs as GameCanvas creates them, the store before connect *)

flatZoom == [aimZoom |-> zoomMin, resultZoom |-> zoomMin, maxArrows |-> maxArrows]
defaultZoom ==
    [aimZoom |-> aimZoomDefault, resultZoom |-> resultZoomDefault, maxArrows |-> maxArrows]

\* The refs as useRef initialises them, with the zoom controls set to c
refsMounted(c) ==
    /\ wind = Origin
    /\ isAiming = FALSE
    /\ aimTimer = 0
    /\ shouldAutoFire = FALSE
    /\ reticlePos = Origin
    /\ momentum = Origin
    /\ inputBuffer = Origin
    /\ lastInputPos = NoPos
    /\ arrowFlight = [active |-> FALSE, elapsed |-> 0, duration |-> 550, hitPoint |-> Origin,
                      start |-> Origin, end |-> Origin, arcHeight |-> initArcHeight,
                      wind |-> Origin, playerIndex |-> 0, trail |-> <<>>]
    /\ arrowImpact = [active |-> FALSE, frame |-> 0, totalFrames |-> ImpactTotalFrames,
                      hitPoint |-> Origin, playerIndex |-> 0]
    /\ postShotZoom = [active |-> FALSE, timer |-> 0, hitPoint |-> Origin]
    /\ pinnedArrows = <<>>
    /\ boardShake = 0
    /\ zoomLevel = 100
    /\ releaseZoomBump = 0
    /\ controls = c
    /\ pendingScore = NoScore
    /\ lastScore = NoScore
    /\ net = [outstanding |-> 0, lastShoot |-> NoPos, results |-> 0]
    /\ hist = [phaseShoots |-> 0, aimTicks |-> 0, landed |-> 0, arrows |-> 0, pins |-> <<>>]

\* The state after the component mounts: no socket id, no room snapshot
mounted(c) == playerId = NoId /\ room = NoRoom /\ refsMounted(c)

\* Both zooms at 1.0, the least the controls panel allows: the view stays at 1x but for
\* the release bump
Init == mounted(flatZoom)

\* A running solo game joined, the zooms as shipped: aiming 2x, result 3x
InitZoom ==
    /\ playerId = Me
    /\ room \in {q \in SoloRooms : q.timeRemaining > 0}
    /\ refsMounted(defaultZoom)

\* socket.emit('shoot', { aimPosition })
emitShoot(n, aim) == [n EXCEPT !.outstanding = @ + 1, !.lastShoot = aim]

----------------------------------------------------------------------------
(* The store *)

\* socket 'connect': the store learns the player's id
Connect ==
    /\ playerId = NoId
    /\ playerId' = Me
    /\ UNCHANGED <<hist, room, wind, isAiming, aimTimer, shouldAutoFire, reticlePos, momentum,
                   inputBuffer, lastInputPos, arrowFlight, arrowImpact, postShotZoom,
                   pinnedArrows, boardShake, zoomLevel, releaseZoomBump, controls, pendingScore,
                   lastScore, net>>

\* Variant: a snapshot without a wind, and a null room, reset the wind
syncRoomReset(r) == IF r # NoRoom /\ r.wind # NoPos THEN r.wind ELSE Origin

\* The effect that follows a change of the room: roomStateRef and wind
syncRoom(r) == IF r # NoRoom /\ r.wind # NoPos THEN r.wind ELSE wind

\* 'gameState' -> setRoom(data); GamePage joins a game only once playerId is known
SetRoom(r) ==
    /\ playerId # NoId
    /\ room = NoRoom \/ room.mode = r.mode
    /\ room' = r
    /\ wind' = syncRoom(r)
    /\ UNCHANGED <<hist, playerId, isAiming, aimTimer, shouldAutoFire, reticlePos, momentum,
                   inputBuffer, lastInputPos, arrowFlight, arrowImpact, postShotZoom,
                   pinnedArrows, boardShake, zoomLevel, releaseZoomBump, controls, pendingScore,
                   lastScore, net>>

\* 'timerUpdate' of a solo game
TimerUpdate(t) ==
    /\ room # NoRoom
    /\ room.mode = "solo"
    /\ room' = [room EXCEPT !.timeRemaining = t]
    /\ wind' = syncRoom(room')
    /\ UNCHANGED <<hist, playerId, isAiming, aimTimer, shouldAutoFire, reticlePos, momentum,
                   inputBuffer, lastInputPos, arrowFlight, arrowImpact, postShotZoom,
                   pinnedArrows, boardShake, zoomLevel, releaseZoomBump, controls, pendingScore,
                   lastScore, net>>

----------------------------------------------------------------------------
(* The socket handler *)

\* players.findIndex(p => p.id === player), 0-based, -1 when absent
RECURSIVE findIndexFrom(_, _, _)
findIndexFrom(players, player, i) ==
    IF i > Len(players) THEN -1
    ELSE IF players[i] = player THEN i - 1
    ELSE findIndexFrom(players, player, i + 1)

playerIndexOf(r, player) == IF r = NoRoom THEN 0 ELSE findIndexFrom(r.players, player, 1)

hitPointOf(path) == IF Len(path) > 0 THEN path[1] ELSE Origin

\* Variant: a result that arrives during a flight leaves the flight as it is
launchFlightIfIdle(player, path) ==
    IF arrowFlight.active
    THEN arrowFlight
    ELSE [active |-> TRUE, elapsed |-> 0, duration |-> flightDuration,
          hitPoint |-> hitPointOf(path), start |-> Origin, end |-> Origin,
          arcHeight |-> initArcHeight, wind |-> wind,
          playerIndex |-> playerIndexOf(room, player), trail |-> <<>>]

\* Variant: a result that arrives during a flight does not set elapsed back to 0
launchFlightKeepElapsed(player, path) ==
    [active |-> TRUE, elapsed |-> IF arrowFlight.active THEN arrowFlight.elapsed ELSE 0,
     duration |-> flightDuration, hitPoint |-> hitPointOf(path),
     start |-> Origin, end |-> Origin, arcHeight |-> initArcHeight,
     wind |-> wind, playerIndex |-> playerIndexOf(room, player), trail |-> <<>>]

\* The flight record as handleShotResult fills it
launchFlight(player, path) ==
    [active |-> TRUE, elapsed |-> 0, duration |-> flightDuration, hitPoint |-> hitPointOf(path),
     start |-> Origin, end |-> Origin, arcHeight |-> initArcHeight,
     wind |-> wind, playerIndex |-> playerIndexOf(room, player), trail |-> <<>>]

handleShotResult(player, path, score) ==
    /\ arrowFlight' = launchFlight(player, path)
    /\ pendingScore' = <<score>>
    /\ releaseZoomBump' = bumpFull
    /\ UNCHANGED <<hist, playerId, room, wind, isAiming, aimTimer, shouldAutoFire, reticlePos,
                   momentum, inputBuffer, lastInputPos, arrowImpact, postShotZoom, pinnedArrows,
                   boardShake, zoomLevel, controls, lastScore>>

----------------------------------------------------------------------------
(* The pointer handlers *)

\* Variant: the guard without the flight check
startGateNoFlight == isMyTurn /\ ~postShotZoom.active

\* The guard of handleStart's first line
startGate == isMyTurn /\ ~postShotZoom.active /\ ~arrowFlight.active

\* The aiming region: the bottom 40% of the screen
inAimRegion(y) == ~(y * 10 < innerHeight * 6)

\* Variant: the game-over test is left out
startAcceptedGameOver(y) == startGate /\ inAimRegion(y)

\* handleStart goes on to start an aim: gate passed, game not over, pointer in the region
startAccepted(y) == startGate /\ ~isGameOver(room) /\ inAimRegion(y)

handleStart(x, y, spawn) ==
    /\ IF startAccepted(y)
       THEN /\ isAiming' = TRUE
            /\ aimTimer' = One
            /\ shouldAutoFire' = FALSE
            /\ reticlePos' = spawn
            /\ lastInputPos' = <<x, y>>
            /\ inputBuffer' = Origin
            /\ momentum' = Origin
            /\ lastScore' = NoScore
            /\ hist' = [hist EXCEPT !.phaseShoots = 0, !.aimTicks = 0]
       ELSE UNCHANGED <<hist, isAiming, aimTimer, shouldAutoFire, reticlePos, lastInputPos,
                        inputBuffer, momentum, lastScore>>
    /\ UNCHANGED <<playerId, room, wind, arrowFlight, arrowImpact, postShotZoom, pinnedArrows,
                   boardShake, zoomLevel, releaseZoomBump, controls, pendingScore, net>>

handleMove(x, y) ==
    /\ IF isMyTurn /\ isAiming
       THEN /\ inputBuffer' = IF lastInputPos # NoPos
                              THEN << inputBuffer[1] + (x - lastInputPos[1]),
                                      inputBuffer[2] + (y - lastInputPos[2]) >>
                              ELSE inputBuffer
            /\ lastInputPos' = <<x, y>>
       ELSE UNCHANGED <<inputBuffer, lastInputPos>>
    /\ UNCHANGED <<hist, playerId, room, wind, isAiming, aimTimer, shouldAutoFire, reticlePos,
                   momentum, arrowFlight, arrowImpact, postShotZoom, pinnedArrows, boardShake,
                   zoomLevel, releaseZoomBump, controls, pendingScore, lastScore, net>>

\* onMouseUp, onTouchEnd, and onMouseLeave while aiming
handleEnd ==
    /\ IF isMyTurn /\ isAiming
       THEN /\ isAiming' = FALSE
            /\ net' = emitShoot(net, reticlePos)
            /\ hist' = [hist EXCEPT !.phaseShoots = Min(@ + 1, 2)]
       ELSE UNCHANGED <<hist, isAiming, net>>
    /\ UNCHANGED <<playerId, room, wind, aimTimer, shouldAutoFire, reticlePos, momentum,
                   inputBuffer, lastInputPos, arrowFlight, arrowImpact, postShotZoom,
                   pinnedArrows, boardShake, zoomLevel, releaseZoomBump, controls, pendingScore,
                   lastScore>>

----------------------------------------------------------------------------
(* One frame of the render loop *)

\* Variant: the dispatch looks at the flag as the previous tick left it
autoFireDispatchLate(armed) == shouldAutoFire /\ room # NoRoom /\ ~isGameOver(room)

\* The HUD branch dispatches an armed auto-fire unless the game is over
autoFireDispatch(armed) == armed /\ room # NoRoom /\ ~isGameOver(room)

\* Variant: the time between two frames is taken as it is
frameDeltaUncapped(rawDelta) == rawDelta

\* deltaTime of a frame: the time since the last frame, capped at 50 ms
frameDelta(rawDelta) == Min(rawDelta, DeltaCap)

\* One frame. The flight section runs in the order of the code: resolve on the first
\* frame, advance elapsed, push the position on the trail (each bound to its value once)
render(rawDelta, drift) ==
    \E deltaTime \in {frameDelta(rawDelta)} :
    \E resolved \in {resolveFlight(arrowFlight)} :
    \E advanced \in {flightAdvance(resolved, deltaTime)} :
    \E f1 \in {IF arrowFlight.active THEN trailPush(advanced) ELSE arrowFlight} :
    LET aiming == isMyTurn /\ isAiming
        ret == reticleStep(drift)
        psz1 == holdStep(postShotZoom)
        imp == impactStep(arrowImpact, pinnedArrows)
        lands == arrowFlight.active /\ f1.elapsed >= f1.duration
        t1 == IF aiming THEN timerStep(aimTimer) ELSE aimTimer
        armed == shouldAutoFire \/ (aiming /\ t1 <= 0)
        fires == autoFireDispatch(armed)
    IN  /\ reticlePos' = ret.pos
        /\ momentum' = ret.m
        /\ inputBuffer' = ret.buf
        /\ lastInputPos' = ret.last
        /\ arrowFlight' = IF lands THEN [f1 EXCEPT !.active = FALSE, !.trail = <<>>] ELSE f1
        /\ boardShake' = IF lands THEN 100 ELSE shakeStep(boardShake)
        /\ releaseZoomBump' = bumpStep(releaseZoomBump).bump
        /\ zoomLevel' = zoomLevel + ease(desiredZoom - zoomLevel)
        /\ arrowImpact' = IF lands
                          THEN [active |-> TRUE, frame |-> 0, totalFrames |-> ImpactTotalFrames,
                                hitPoint |-> f1.hitPoint, playerIndex |-> f1.playerIndex]
                          ELSE imp.impact
        /\ pinnedArrows' = imp.arrows
        /\ postShotZoom' = IF lands
                           THEN [active |-> TRUE, timer |-> holdFrames(room),
                                 hitPoint |-> f1.hitPoint]
                           ELSE psz1
        /\ pendingScore' = IF lands THEN NoScore ELSE pendingScore
        /\ lastScore' = IF lands /\ pendingScore # NoScore THEN pendingScore ELSE lastScore
        /\ aimTimer' = t1
        /\ shouldAutoFire' = (armed /\ ~fires)
        /\ isAiming' = (isAiming /\ ~fires)
        /\ net' = IF fires THEN emitShoot(net, ret.pos) ELSE net
        /\ hist' = [hist EXCEPT !.phaseShoots = IF fires THEN Min(@ + 1, 2) ELSE @,
                                !.aimTicks = IF aiming THEN Min(@ + 1, TimerFrames + 2) ELSE @,
                                !.landed = IF lands THEN @ + 1 ELSE @,
                                !.arrows = IF imp.pinned THEN @ + 1 ELSE @,
                                !.pins = IF imp.pinned
                                         THEN Append(@, [point |-> arrowImpact.hitPoint,
                                                         playerIndex |-> arrowImpact.playerIndex])
                                         ELSE @]
        /\ UNCHANGED <<playerId, room, wind, controls>>

----------------------------------------------------------------------------
(* The environment *)

\* The server answers a 'shoot' of this client, or reports the other player's shot
ShotResult(res, cap) ==
    /\ net.results < cap
    /\ IF res.player = Me
       THEN net.outstanding > 0
       ELSE room # NoRoom /\ room.mode = "multiplayer"
    /\ handleShotResult(res.player, res.path, res.score)
    /\ net' = IF res.player = Me
              THEN [outstanding |-> net.outstanding - 1,
                    lastShoot |-> IF net.outstanding = 1 THEN NoPos ELSE net.lastShoot,
                    results |-> net.results + 1]
              ELSE [net EXCEPT !.results = @ + 1]

\* mousedown or touchstart; the model stops starting phases at MaxOutstanding requests
PointerDown(p, spawn) ==
    /\ net.outstanding < MaxOutstanding
    /\ handleStart(p[1], p[2], spawn)

Next ==
    \/ Connect
    \/ \E r \in Rooms : SetRoom(r)
    \/ \E t \in {0, soloSeconds} : TimerUpdate(t)
    \/ \E res \in ShotResults : ShotResult(res, MaxResults)
    \/ \E p \in PointerPositions, spawn \in SpawnSlots : PointerDown(p, spawn)
    \/ \E p \in MovePositions : handleMove(p[1], p[2])
    \/ handleEnd
    \/ \E rawDelta \in RawDeltas, drift \in Drifts : render(rawDelta, drift)

Spec == Init /\ [][Next]_vars

\* requestAnimationFrame reschedules render after every frame
Tick == \E rawDelta \in RawDeltas, drift \in Drifts : render(rawDelta, drift)

FairSpec == Spec /\ WF_vars(Tick)

\* A solo session, with room for a second shot result
NextSolo ==
    \/ Connect
    \/ \E r \in SoloRooms : SetRoom(r)
    \/ \E t \in {0, soloSeconds} : TimerUpdate(t)
    \/ \E res \in ShotResults : ShotResult(res, MaxSoloResults)
    \/ \E p \in PointerPositions, spawn \in SpawnSlots : PointerDown(p, spawn)
    \/ \E p \in MovePositions : handleMove(p[1], p[2])
    \/ handleEnd
    \/ \E rawDelta \in RawDeltas, drift \in Drifts : render(rawDelta, drift)

SpecSolo == Init /\ [][NextSolo]_vars

\* The k-th shot of the other player, each at a hit point of its own
PinShot(k) == [player |-> Other, path |-> << <<10 * k, -5>> >>, score |-> k]

\* A multiplayer game watched without touching the pointer: the other player's shots
NextPins ==
    \/ Connect
    \/ \E r \in MultiRooms : SetRoom(r)
    \/ ShotResult(PinShot(net.results + 1), MaxPinResults)
    \/ \E rawDelta \in RawDeltas, drift \in Drifts : render(rawDelta, drift)

SpecPins == Init /\ [][NextPins]_vars

----------------------------------------------------------------------------
(* Properties *)

\* A step that emits a 'shoot'
Emits == net'.outstanding = net.outstanding + 1

\* A handleStart step
StartStep == \E p \in PointerPositions, spawn \in SpawnSlots : handleStart(p[1], p[2], spawn)

\* The aim state handleStart writes
aimState == <<isAiming, aimTimer, shouldAutoFire, reticlePos, momentum, inputBuffer,
              lastInputPos>>

\* An aiming phase has begun and has ended
phaseEnded == ~isAiming /\ (aimTimer > 0 \/ hist.aimTicks > 0)

\* C1: an aiming phase emits at most one 'shoot', exactly one once it has ended by release
\* or by timer expiry, and once it has ended the armed auto-fire flag is clear
C1_OneShootPerAim ==
    /\ hist.phaseShoots <= 1
    /\ phaseEnded => hist.phaseShoots = 1 /\ ~shouldAutoFire

\* C2: a render tick that runs while it is not the local player's turn ends the aiming
\* phase: after it isAiming is false
C2_TurnLossEndsAim == [][Tick /\ ~isMyTurn => ~isAiming']_vars

\* C3: no 'shoot' is emitted while a flight is active, an impact animation is active or
\* the post-shot hold is running
C3_NoShootDuringShot ==
    [][Emits => ~(arrowFlight.active \/ arrowImpact.active \/ postShotZoom.active)]_vars

\* C4: between the emission of a 'shoot' and the arrival of its shot result no second
\* 'shoot' is emitted: at most one request is outstanding
C4_OneOutstanding == net.outstanding <= 1

C6_TimerCountdown ==
    \/ aimTimer = 0 /\ hist.aimTicks = 0
    \/ /\ aimTimer = Max(0, One - hist.aimTicks * RoundDiv(One, TimerFrames))
       /\ hist.aimTicks >= TimerFrames + 1 => aimTimer = 0

\* C6, the countdown has taken all of its TimerFrames + 1 ticks
C6_TimerRanOut == isAiming /\ hist.aimTicks = TimerFrames + 1 /\ aimTimer = 0

\* C6 as stated: the timer is 0 after at most TimerFrames aiming ticks
C6_ZeroAfterTimerFrames == hist.aimTicks >= TimerFrames => aimTimer = 0

\* C7: handleStart changes the aim state only if it is the local player's turn (in a solo
\* game: time remains), no post-shot hold is running and no flight is active; otherwise it
\* leaves it as it was
C7_StartGate ==
    [][StartStep /\ aimState' # aimState =>
           /\ isMyTurn
           /\ room # NoRoom /\ room.mode = "solo" => room.timeRemaining > 0
           /\ ~postShotZoom.active
           /\ ~arrowFlight.active]_vars

\* C7, a phase has just been started after an earlier shot was played out
C7_Started == isAiming /\ aimTimer = One /\ hist.aimTicks = 0 /\ hist.landed > 0

C9_ImpactPinsOnce ==
    [][Tick /\ arrowImpact.active =>
           IF arrowImpact.frame + 1 < arrowImpact.totalFrames
           THEN /\ arrowImpact' = [arrowImpact EXCEPT !.frame = @ + 1]
                /\ pinnedArrows' = pinnedArrows
           ELSE /\ hist'.arrows = hist.arrows + 1
                /\ pinnedArrows' # <<>>
                /\ pinnedArrows'[Len(pinnedArrows')] =
                       [point |-> arrowImpact.hitPoint,
                        playerIndex |-> arrowImpact.playerIndex]]_vars

\* C10: every landed flight contributes one pinned arrow: the arrows appended so far are
\* the flights landed so far, less the one whose impact animation is still running
C10_EveryLandingPinned ==
    hist.landed = hist.arrows + (IF arrowImpact.active THEN 1 ELSE 0)

----------------------------------------------------------------------------
(* The speed-bounded reticle of src/src/components/GameCanvas.tsx: impulse steering.    *)
(* In SpecSpeed momentum and reticlePos are in tenths of a pixel, inputBuffer in pixels. *)

\* Clamp the speed to [minSpeed, maxSpeed]; a speed of at most 0.001 is left alone
boundSpeed(m) ==
    LET d2 == m[1] * m[1] + m[2] * m[2]
    IN  IF d2 > maxSpeed * maxSpeed
        THEN << Scale(m[1], maxSpeed, CeilSqrt(d2)), Scale(m[2], maxSpeed, CeilSqrt(d2)) >>
        ELSE IF d2 < minSpeed * minSpeed /\ d2 * 10000 > 1
             THEN << CeilDiv(m[1] * minSpeed, ISqrt(d2)), CeilDiv(m[2] * minSpeed, ISqrt(d2)) >>
             ELSE m

\* The physics block of one aiming tick: thrust from the buffer, speed bounds, integrate
impulsePhysics(pos, m, buf) ==
    LET m1 == << m[1] + Scale(buf[1] * 10, steeringPowerPct, 100),
                 m[2] + Scale(buf[2] * 10, steeringPowerPct, 100) >>
        m2 == boundSpeed(m1)
    IN  [pos |-> << pos[1] + m2[1], pos[2] + m2[2] >>, m |-> m2, buf |-> Origin]

\* The seed of handleStart: minSpeed along a random direction
SeedMomenta == { <<minSpeed, 0>>, <<-minSpeed, 0>>, <<0, minSpeed>>, <<0, -minSpeed>> }

\* Pointer movement between two frames, in pixels
SpeedDrags == { <<-4, 0>>, <<4, 0>>, <<0, 3>>, <<60, 0>> }

\* The state handleStart leaves: aiming, on the player's turn, momentum seeded
InitSpeed ==
    /\ playerId = Me
    /\ room \in {r \in MultiRooms : r.currentTurn = Me /\ ~isGameOver(r)}
    /\ wind = Origin
    /\ isAiming = TRUE
    /\ aimTimer = One
    /\ shouldAutoFire = FALSE
    /\ reticlePos = Origin
    /\ momentum \in SeedMomenta
    /\ inputBuffer = Origin
    /\ lastInputPos = Origin
    /\ arrowFlight = [active |-> FALSE, elapsed |-> 0, duration |-> 550, hitPoint |-> Origin,
                      start |-> Origin, end |-> Origin, arcHeight |-> initArcHeight,
                      wind |-> Origin, playerIndex |-> 0, trail |-> <<>>]
    /\ arrowImpact = [active |-> FALSE, frame |-> 0, totalFrames |-> ImpactTotalFrames,
                      hitPoint |-> Origin, playerIndex |-> 0]
    /\ postShotZoom = [active |-> FALSE, timer |-> 0, hitPoint |-> Origin]
    /\ pinnedArrows = <<>>
    /\ boardShake = 0
    /\ zoomLevel = 100
    /\ releaseZoomBump = 0
    /\ controls = flatZoom
    /\ pendingScore = NoScore
    /\ lastScore = NoScore
    /\ net = [outstanding |-> 0, lastShoot |-> NoPos, results |-> 0]
    /\ hist = [phaseShoots |-> 0, aimTicks |-> 0, landed |-> 0, arrows |-> 0, pins |-> <<>>]

\* handleMove: the movement since the last pointer event goes into the buffer
SpeedDrag(d) ==
    /\ isMyTurn /\ isAiming
    /\ inputBuffer = Origin
    /\ inputBuffer' = << inputBuffer[1] + d[1], inputBuffer[2] + d[2] >>
    /\ lastInputPos' = << lastInputPos[1] + d[1], lastInputPos[2] + d[2] >>
    /\ UNCHANGED <<hist, playerId, room, wind, isAiming, aimTimer, shouldAutoFire, reticlePos,
                   momentum, arrowFlight, arrowImpact, postShotZoom, pinnedArrows, boardShake,
                   zoomLevel, releaseZoomBump, controls, pendingScore, lastScore, net>>

\* The physics block of render on an aiming tick
SpeedTick ==
    /\ isMyTurn /\ isAiming
    /\ hist.aimTicks < MaxSpeedTicks
    /\ LET ph == impulsePhysics(reticlePos, momentum, inputBuffer)
       IN  /\ reticlePos' = ph.pos
           /\ momentum' = ph.m
           /\ inputBuffer' = ph.buf
    /\ hist' = [hist EXCEPT !.aimTicks = @ + 1]
    /\ UNCHANGED <<playerId, room, wind, isAiming, aimTimer, shouldAutoFire, lastInputPos,
                   arrowFlight, arrowImpact, postShotZoom, pinnedArrows, boardShake, zoomLevel,
                   releaseZoomBump, controls, pendingScore, lastScore, net>>

NextSpeed == (\E d \in SpeedDrags : SpeedDrag(d)) \/ SpeedTick

SpecSpeed == InitSpeed /\ [][NextSpeed]_vars

\* The last n entries of a sequence
lastN(seq, n) == SubSeq(seq, Len(seq) - n + 1, Len(seq))

\* C11: after N completed impact animations the pinned collection holds the
\* min(N, maxArrows) most recently completed arrows, in completion order
C11_RetentionCap ==
    /\ Len(pinnedArrows) = Min(Len(hist.pins), maxArrows)
    /\ pinnedArrows = lastN(hist.pins, Min(Len(hist.pins), maxArrows))

\* C11, the oldest arrows have been evicted: shots at distinct points, two more than fit
C11_Evicted ==
    /\ Len(hist.pins) = maxArrows + 2
    /\ \A i, j \in 1..Len(hist.pins) : i # j => hist.pins[i].point # hist.pins[j].point
    /\ Len(pinnedArrows) = maxArrows
    /\ pinnedArrows[1] = hist.pins[3]

\* A render tick in which the active flight's elapsed time reaches its duration
Lands == Tick /\ arrowFlight.active /\ arrowFlight'.elapsed >= arrowFlight.duration

\* C12: the tick in which a flight's elapsed time reaches its duration deactivates the
\* flight and empties its trail, creates the impact animation at frame 0 on the flight's
\* hit point, sets the board shake, shows the pending score and clears it, and starts the
\* hold on the hit point for 48 frames in a solo game and floor(60 * holdTime) frames
\* otherwise; no other step makes a score visible
C12_LandingTick ==
    [][/\ Lands =>
           /\ ~arrowFlight'.active
           /\ arrowFlight'.trail = <<>>
           /\ arrowImpact' = [active |-> TRUE, frame |-> 0, totalFrames |-> 12,
                              hitPoint |-> arrowFlight.hitPoint,
                              playerIndex |-> arrowFlight.playerIndex]
           /\ boardShake' = 100
           /\ pendingScore # NoScore
           /\ lastScore' = pendingScore
           /\ pendingScore' = NoScore
           /\ postShotZoom' =
                  [active |-> TRUE,
                   timer |-> IF room # NoRoom /\ room.mode = "solo"
                             THEN 48
                             ELSE (60 * holdTimeTenths) \div 10,
                   hitPoint |-> arrowFlight.hitPoint]
       /\ lastScore' # lastScore /\ lastScore' # NoScore => Lands]_vars

\* C12, a flight has just landed in a solo game, with the trail, the shake and the score
C12_LandedSolo ==
    /\ room # NoRoom
    /\ room.mode = "solo"
    /\ hist.landed > 0
    /\ ~arrowFlight.active
    /\ arrowImpact.active
    /\ arrowImpact.frame = 0
    /\ boardShake = 100
    /\ lastScore # NoScore
    /\ postShotZoom.timer = 48

\* C13: in the speed-bounded reticle, after every aiming tick that follows a nonzero
\* impulse (here the seed of the aim start), minSpeed <= |momentum| <= maxSpeed
C13_SpeedEnvelope ==
    isAiming /\ hist.aimTicks > 0 =>
        LET d2 == momentum[1] * momentum[1] + momentum[2] * momentum[2]
        IN  minSpeed * minSpeed <= d2 /\ d2 <= maxSpeed * maxSpeed

----------------------------------------------------------------------------
(* The zoom, with the controls as shipped *)

\* A running solo session: one shot result, the pointer pressed and released
NextZoom ==
    \/ \E res \in ShotResults : ShotResult(res, MaxResults)
    \/ \E p \in PointerPositions, spawn \in SpawnSlots : PointerDown(p, spawn)
    \/ handleEnd
    \/ \E rawDelta \in RawDeltas, drift \in Drifts : render(rawDelta, drift)

SpecZoom == InitZoom /\ [][NextZoom]_vars

\* C14: zoomLevel changes only in a render tick; the tick moves it toward the desired
\* zoom of that tick by 6% of the gap (to the next hundredth), never across it, and
\* a nonzero gap to that desired zoom is strictly smaller after the tick
C14_ZoomEase ==
    [][LET gap == desiredZoom - zoomLevel
           move == zoomLevel' - zoomLevel
           left == desiredZoom - zoomLevel'
       IN  /\ move # 0 => Tick
           /\ Tick =>
                 /\ IF gap >= 0
                    THEN /\ gap * easePct <= 100 * move
                         /\ 100 * move < gap * easePct + 100
                         /\ left >= 0
                    ELSE /\ gap * easePct >= 100 * move
                         /\ 100 * move > gap * easePct - 100
                         /\ left <= 0
                 /\ gap > 0 => left < gap
                 /\ gap < 0 => left > gap]_vars

\* The hold is over, nobody aims, and the view has eased all the way back to 1x
C14_EasedBack ==
    /\ hist.landed > 0
    /\ ~postShotZoom.active
    /\ ~isAiming
    /\ releaseZoomBump <= bumpFloor
    /\ zoomLevel = 100

\* C15: the zoom phase of a tick is chosen by priority: the hold (resultZoom on its hit
\* point), else a flight past 70% of its duration (blend toward resultZoom on its hit
\* point), else aiming (aimZoom on the target centre), else 1x on the target centre
C15_ZoomPriority ==
    LET z == zoomPhase(postShotZoom, arrowFlight, isMyTurn /\ isAiming, controls)
        f == arrowFlight
    IN  IF postShotZoom.active
        THEN z = [zoom |-> controls.resultZoom, focus |-> postShotZoom.hitPoint]
        ELSE IF f.active /\ 10 * f.elapsed > 7 * f.duration
        THEN z = [zoom |-> 100 + ((controls.resultZoom - 100)
                                     * (10 * f.elapsed - 7 * f.duration)) \div (3 * f.duration),
                  focus |-> f.hitPoint]
        ELSE IF isMyTurn /\ isAiming
        THEN z = [zoom |-> controls.aimZoom, focus |-> Origin]
        ELSE z = [zoom |-> 100, focus |-> Origin]

\* C16: the step that emits a 'shoot' sets releaseZoomBump to its full value; in every
\* render tick a bump above 0.01 adds 3% of itself to the desired zoom and is multiplied
\* by 0.92, whatever the phase, and a bump of at most 0.01 adds nothing and stays
C16_ReleaseBump ==
    [][/\ Emits => releaseZoomBump' = bumpFull
       /\ Tick /\ ~Emits =>
             LET phase == zoomPhase(postShotZoom, arrowFlight, isMyTurn /\ isAiming, controls)
             IN  IF releaseZoomBump > bumpFloor
                 THEN /\ desiredZoom = phase.zoom + (releaseZoomBump * bumpGainPct) \div 100
                      /\ releaseZoomBump' = (releaseZoomBump * bumpDecayPct) \div 100
                 ELSE /\ desiredZoom = phase.zoom
                      /\ releaseZoomBump' = releaseZoomBump]_vars

----------------------------------------------------------------------------
(* The pointer, dragged out of the aiming region while the turn changes hands *)

\* clientX, clientY of a mousemove or touchmove in the top quarter of the screen
OutsideMovePositions == { <<0, innerHeight \div 4>> }

PointerRooms == {q \in MultiRooms : q.round <= q.maxRounds}

\* The component in a multiplayer game in its first round, the local player to shoot
InitPointer ==
    /\ playerId = Me
    /\ room \in {q \in PointerRooms : q.currentTurn = Me}
    /\ refsMounted(flatZoom)

\* The turn passes back and forth while the pointer is dragged and shots are answered
NextPointer ==
    \/ \E r \in PointerRooms : SetRoom(r)
    \/ \E res \in ShotResults : ShotResult(res, MaxResults)
    \/ \E p \in PointerPositions, spawn \in SpawnSlots : PointerDown(p, spawn)
    \/ \E p \in OutsideMovePositions : handleMove(p[1], p[2])
    \/ handleEnd
    \/ \E rawDelta \in RawDeltas, drift \in Drifts : render(rawDelta, drift)

SpecPointer == InitPointer /\ [][NextPointer]_vars

\* C17: a render tick that runs while it is not the local player's turn leaves reticle
\* position, momentum and input buffer at exactly zero, whatever they were before
C17_OffTurnReset ==
    [][Tick /\ ~isMyTurn =>
           reticlePos' = Origin /\ momentum' = Origin /\ inputBuffer' = Origin]_vars

\* An aiming phase whose reticle was spawned off-centre has lost the turn and was reset
C17_ResetWhileAiming ==
    /\ ~isMyTurn
    /\ isAiming
    /\ lastInputPos = NoPos
    /\ reticlePos = Origin
    /\ momentum = Origin
    /\ inputBuffer = Origin
    /\ hist.aimTicks > 0

\* C20: a handleStart or handleMove whose position lies above the bottom 40% of the
\* screen changes none of isAiming, the aim timer, the reticle position, the momentum
\* and the input buffer
C20_OutsideRegionIgnored ==
    [][(\E p \in PointerPositions \cup OutsideMovePositions, spawn \in SpawnSlots :
            /\ ~inAimRegion(p[2])
            /\ handleStart(p[1], p[2], spawn) \/ handleMove(p[1], p[2]))
          => UNCHANGED <<isAiming, aimTimer, reticlePos, momentum, inputBuffer>>]_vars

\* C18: while the room snapshot shows game over no handleStart starts or restarts an
\* aiming phase, and every render tick still advances an active flight (deactivating it
\* when its duration is reached), an active impact animation by one frame (ending it at
\* totalFrames) and an active hold by one frame (ending it at 0)
C18_GameOver ==
    [][isGameOver(room) =>
           /\ StartStep => UNCHANGED aimState
           /\ isAiming' => isAiming
           /\ Tick /\ arrowFlight.active =>
                 /\ arrowFlight'.elapsed > arrowFlight.elapsed
                 /\ arrowFlight'.active = (arrowFlight'.elapsed < arrowFlight.duration)
           /\ Tick /\ arrowImpact.active /\ ~Lands =>
                 /\ arrowImpact'.frame = arrowImpact.frame + 1
                 /\ arrowImpact'.active = (arrowImpact'.frame < arrowImpact.totalFrames)
           /\ Tick /\ postShotZoom.active /\ ~Lands =>
                 /\ postShotZoom'.timer = postShotZoom.timer - 1
                 /\ postShotZoom'.active = (postShotZoom'.timer > 0)]_vars

\* The game is over and the last shot has run its course: landed, pinned, hold finished
C18_FinishedGameOver ==
    /\ isGameOver(room)
    /\ hist.landed > 0
    /\ hist.arrows = hist.landed
    /\ ~arrowFlight.active
    /\ ~arrowImpact.active
    /\ ~postShotZoom.active
    /\ postShotZoom.timer = 0
    /\ ~isAiming

\* C19: a shot result that arrives while a flight is active re-initialises the one flight
\* record for the new result (active, elapsed 0, the new hit point, the shooter's index,
\* the current wind, an empty trail) and replaces the pending score by the new score;
\* impact animation, hold and pinned arrows are left as they are
C19_ResultDuringFlight ==
    [][arrowFlight.active /\ net'.results = net.results + 1 =>
           LET res == PinShot(net.results + 1)
           IN  /\ arrowFlight' = [active |-> TRUE, elapsed |-> 0, duration |-> flightDuration,
                                  hitPoint |-> res.path[1], start |-> Origin,
                                  end |-> Origin, arcHeight |-> initArcHeight,
                                  wind |-> wind, playerIndex |-> 1, trail |-> <<>>]
               /\ pendingScore' = <<res.score>>
               /\ UNCHANGED <<arrowImpact, postShotZoom, pinnedArrows, lastScore>>]_vars

\* The second result has replaced the first flight before it landed
C19_Overwritten ==
    /\ net.results = 2
    /\ hist.landed = 0
    /\ arrowFlight.active
    /\ arrowFlight.elapsed = 0
    /\ arrowFlight.hitPoint = PinShot(2).path[1]
    /\ pendingScore = <<PinShot(2).score>>

----------------------------------------------------------------------------
(* The wind, with snapshots that carry one and snapshots that do not *)

\* 'gameState' payloads of a multiplayer game: no wind field, or one of two winds
WindRooms ==
    { [mode |-> "multiplayer", players |-> <<Me, Other>>, currentTurn |-> Other, round |-> 1,
       maxRounds |-> maxRoundsCfg, timeRemaining |-> 0, wind |-> w]
      : w \in {NoPos, <<2, -1>>, <<-3, 0>>} }

\* onExit: setRoom(null)
ExitRoom ==
    /\ room # NoRoom
    /\ room' = NoRoom
    /\ wind' = syncRoom(NoRoom)
    /\ UNCHANGED <<hist, playerId, isAiming, aimTimer, shouldAutoFire, reticlePos, momentum,
                   inputBuffer, lastInputPos, arrowFlight, arrowImpact, postShotZoom,
                   pinnedArrows, boardShake, zoomLevel, releaseZoomBump, controls, pendingScore,
                   lastScore, net>>

NextWind ==
    \/ Connect
    \/ \E r \in WindRooms : SetRoom(r)
    \/ ExitRoom
    \/ ShotResult(PinShot(net.results + 1), MaxResults)
    \/ \E rawDelta \in RawDeltas, drift \in Drifts : render(rawDelta, drift)

SpecWind == Init /\ [][NextWind]_vars

\* C21: the wind changes only with the room, and then only to the wind the new snapshot
\* carries: a snapshot without a wind and a null room leave it at its last value
C21_WindRetained ==
    [][wind' = IF room' # room /\ room' # NoRoom /\ room'.wind # NoPos
               THEN room'.wind
               ELSE wind]_vars

\* A wind was received, then a snapshot without one: the wind is still the one received
C21_WindKept ==
    /\ room # NoRoom
    /\ room.wind = NoPos
    /\ wind # Origin

----------------------------------------------------------------------------
(* The trajectory, over several hit points and winds *)

NextArc ==
    \/ Connect
    \/ \E r \in WindRooms : SetRoom(r)
    \/ ShotResult(PinShot(net.results + 1), MaxPinResults)
    \/ \E rawDelta \in RawDeltas, drift \in Drifts : render(rawDelta, drift)

SpecArc == Init /\ [][NextArc]_vars

\* C22: for the start, end and arc height a flight has resolved, the position at t = 0 is
\* the start and, without wind, at t = 1 the end; the gravity arc is 0 at t = 0 and t = 1
\* and the arc height at t = 1/2; with wind the position at t = 1 is the end plus the wind
\* times the drift factors; the point pushed on the trail is the position of the frame
C22_Trajectory ==
    arrowFlight.elapsed > 0 =>
        LET f == arrowFlight
            d == f.duration
        IN  /\ flightPos(f, 0, d) = f.start
            /\ flightPos([f EXCEPT !.wind = Origin], d, d) = f.end
            /\ gravityArc(f.arcHeight, 0, d) = 0
            /\ gravityArc(f.arcHeight, d, d) = 0
            /\ gravityArc(f.arcHeight, 1, 2) = f.arcHeight
            /\ flightPos(f, d, d) = << f.end[1] + f.wind[1] * windDriftXFactor,
                                       f.end[2] + f.wind[2] * windDriftYFactor >>
            /\ f.trail # <<>> =>
                  f.trail[Len(f.trail)] = flightPos(f, Min(f.elapsed, d), d)

\* A flight under wind is on its way, its geometry resolved and its arc not flat
C22_InFlightUnderWind ==
    /\ arrowFlight.active
    /\ arrowFlight.elapsed > 0
    /\ arrowFlight.wind # Origin
    /\ arrowFlight.arcHeight > 0
    /\ arrowFlight.start # arrowFlight.end
    /\ arrowFlight.hitPoint # Origin
    /\ Len(arrowFlight.trail) > 1

----------------------------------------------------------------------------
(* The retention cap, moved in the controls panel while arrows are pinned *)

\* The panel sets maxArrows; controlsRef carries it to the next frame
SetMaxArrows(k) ==
    /\ controls.maxArrows # k
    /\ controls' = [controls EXCEPT !.maxArrows = k]
    /\ UNCHANGED <<hist, playerId, room, wind, isAiming, aimTimer, shouldAutoFire, reticlePos,
                   momentum, inputBuffer, lastInputPos, arrowFlight, arrowImpact, postShotZoom,
                   pinnedArrows, boardShake, zoomLevel, releaseZoomBump, pendingScore,
                   lastScore, net>>

NextCap ==
    \/ Connect
    \/ \E r \in {q \in MultiRooms : q.currentTurn = Other} : SetRoom(r)
    \/ ShotResult(PinShot(net.results + 1), MaxPinResults)
    \/ \E k \in maxArrowsMin..maxArrows : SetMaxArrows(k)
    \/ \E rawDelta \in RawDeltas, drift \in Drifts : render(rawDelta, drift)

SpecCap == Init /\ [][NextCap]_vars

\* C23: in every state the pinned collection is no longer than the maxArrows setting of
\* that state
C23_WithinSetting == Len(pinnedArrows) <= controls.maxArrows

----------------------------------------------------------------------------
(* The aiming phase: spawn, drag input, the rim of the aiming disc *)

\* Spawn of handleStart: direction of the slot (cosine and sine in hundredths), each
\* coordinate scaled by the target radius and by its own factor 0.6 + random * 0.4
spawnPos(dir, fx, fy) ==
    << Scale(dir[1] * targetRadius, fx, 10000), Scale(dir[2] * targetRadius, fy, 10000) >>

\* Slot 0 without jitter, slot 1 (60 degrees) with jitter to 53.13 degrees
SpawnDirs == { <<100, 0>>, <<60, 80>> }
SpawnFactors == { spawnFactorLo, spawnFactorHi }
AimSpawns == { spawnPos(dir, fx, fy) : dir \in SpawnDirs, fx \in SpawnFactors, fy \in SpawnFactors }

\* Pointer positions inside the aiming region, at the left edge and far to the right
AimMovePositions ==
    { << (innerWidth * k) \div 5, (innerHeight * 3) \div 4 >> : k \in {0, 4} }

NextAim ==
    \/ \E spawn \in AimSpawns : PointerDown(<<0, (innerHeight * 3) \div 4>>, spawn)
    \/ \E p \in AimMovePositions : handleMove(p[1], p[2])
    \/ handleEnd
    \/ \E rawDelta \in RawDeltas, drift \in Drifts : render(rawDelta, drift)

SpecAim == InitPointer /\ [][NextAim]_vars

\* A step of handleStart that starts an aiming phase
aimStartStep ==
    \E spawn \in AimSpawns :
        /\ startAccepted((innerHeight * 3) \div 4)
        /\ handleStart(0, (innerHeight * 3) \div 4, spawn)

\* C24: an accepted aim start puts the reticle on a spawn slot between 0.6 and 1.0 target
\* radii from the centre and seeds a nonzero momentum, and the first aiming tick after
\* the start changes the reticle position
C24_SpawnAndSeed ==
    [][/\ aimStartStep =>
            /\ normSq(reticlePos') >= ((spawnFactorLo * targetRadius) \div 100) ^ 2
            /\ normSq(reticlePos') <= ((spawnFactorHi * targetRadius) \div 100) ^ 2
            /\ momentum' # Origin
       /\ (isMyTurn /\ isAiming /\ hist.aimTicks = 0 /\ hist'.aimTicks = 1)
            => reticlePos' # reticlePos]_vars

Abs(a) == IF a < 0 THEN -a ELSE a

\* q has the direction of p, up to the rounding of q to whole pixels
sameDirection(p, q) ==
    /\ p[1] * q[1] >= 0
    /\ p[2] * q[2] >= 0
    /\ Abs(p[1] * q[2] - p[2] * q[1]) <= Abs(p[1]) + Abs(p[2])

\* C25: after an aiming tick the reticle is within 160 px of the centre; a position the
\* integration carries beyond the circle is projected onto it along its own direction,
\* the momentum stays what friction made of it, and every 'shoot' request carries a
\* position within 160 px
C25_RimClamp ==
    [][/\ (Tick /\ isMyTurn /\ isAiming) =>
            LET m1 == << momentum[1] + Scale(inputBuffer[1], dragSensitivityPct, 100),
                         momentum[2] + Scale(inputBuffer[2], dragSensitivityPct, 100) >>
                p == << reticlePos[1] + momentum'[1], reticlePos[2] + momentum'[2] >>
            IN  /\ \E drift \in Drifts :
                       momentum' = << Scale(m1[1], frictionPct, 100) + drift[1],
                                      Scale(m1[2], frictionPct, 100) + drift[2] >>
                /\ normSq(reticlePos') <= maxR * maxR
                /\ IF normSq(p) > maxR * maxR
                   THEN /\ normSq(reticlePos') > (maxR - 2) * (maxR - 2)
                        /\ sameDirection(p, reticlePos')
                        /\ momentum' # Origin
                   ELSE reticlePos' = p
       /\ net'.lastShoot # NoPos => normSq(net'.lastShoot) <= maxR * maxR]_vars

\* A 'shoot' request was sent from the rim, off the axes
C25_ShotFromRim ==
    /\ net.lastShoot # NoPos
    /\ normSq(net.lastShoot) > (maxR - 2) * (maxR - 2)
    /\ net.lastShoot[2] # 0

\* A pointer move event
moveStep == \E p \in AimMovePositions : handleMove(p[1], p[2])

\* C26: a pointer move during an aim adds its delta to the input buffer; the next aiming
\* tick adds the buffered sum to the momentum once and leaves the buffer at zero; a
\* pointer move outside an aim changes nothing
C26_BufferOnce ==
    [][/\ (moveStep /\ isMyTurn /\ isAiming /\ lastInputPos # NoPos) =>
            /\ inputBuffer' = << inputBuffer[1] + (lastInputPos'[1] - lastInputPos[1]),
                                 inputBuffer[2] + (lastInputPos'[2] - lastInputPos[2]) >>
            /\ momentum' = momentum
       /\ (moveStep /\ ~(isMyTurn /\ isAiming)) => UNCHANGED vars
       /\ (Tick /\ isMyTurn /\ isAiming) =>
            /\ inputBuffer' = Origin
            /\ \E drift \in Drifts :
                   momentum' =
                       << Scale(momentum[1] + Scale(inputBuffer[1], dragSensitivityPct, 100),
                                frictionPct, 100) + drift[1],
                          Scale(momentum[2] + Scale(inputBuffer[2], dragSensitivityPct, 100),
                                frictionPct, 100) + drift[2] >>
       /\ (Tick /\ ~isAiming) => momentum' = momentum \/ ~isMyTurn]_vars

\* The first tick of an aim has applied the drag to the right that was buffered before it
C26_SumApplied ==
    /\ isAiming
    /\ hist.aimTicks = 1
    /\ inputBuffer = Origin
    /\ lastInputPos = << (innerWidth * 4) \div 5, (innerHeight * 3) \div 4 >>
    /\ momentum = << Scale(Scale((innerWidth * 4) \div 5, dragSensitivityPct, 100),
                           frictionPct, 100), 0 >>

----------------------------------------------------------------------------
(* Flights under short, regular and long frames *)

FlightDeltas == { ShortFrame, DeltaCap, 2 * DeltaCap + 20 }

NextFlight ==
    \/ Connect
    \/ \E r \in {q \in MultiRooms : q.currentTurn = Other} : SetRoom(r)
    \/ ShotResult(PinShot(net.results + 1), MaxSoloResults)
    \/ \E rawDelta \in FlightDeltas, drift \in Drifts : render(rawDelta, drift)

SpecFlight == Init /\ [][NextFlight]_vars

\* A frame, whatever the time since the last one
flightTick == \E rawDelta \in FlightDeltas, drift \in Drifts : render(rawDelta, drift)

\* C27: a tick of a flight adds min(real delta, 50 ms) to elapsed while the progress before
\* the tick is at most slowMoThreshold, and slowMoSpeed times that beyond it; elapsed never
\* goes down in a tick, and the tick in which a flight of duration D lands is at least its
\* ceil(D / 50)-th (the trail holds one point per earlier tick of the flight, up to 8)
C27_ElapsedStep ==
    [][(flightTick /\ arrowFlight.active) =>
            LET f == arrowFlight
                slow == f.elapsed * 100 > slowMoThresholdPct * f.duration
            IN  /\ \E rawDelta \in FlightDeltas :
                       arrowFlight'.elapsed =
                           f.elapsed + IF slow
                                       THEN (Min(rawDelta, DeltaCap) * slowMoSpeedPct) \div 100
                                       ELSE Min(rawDelta, DeltaCap)
                /\ arrowFlight'.elapsed >= f.elapsed
                /\ arrowFlight'.elapsed <= f.elapsed + DeltaCap
                /\ (~arrowFlight'.active /\ Len(f.trail) < trailMax)
                       => Len(f.trail) + 1 >= CeilDiv(f.duration, DeltaCap)]_vars

\* A flight in slow motion that began with a long pause and has had a short frame
C27_SlowAfterPause ==
    /\ arrowFlight.active
    /\ arrowFlight.elapsed * 100 > slowMoThresholdPct * arrowFlight.duration
    /\ arrowFlight.elapsed % DeltaCap # 0
    /\ Len(arrowFlight.trail) >= 3

----------------------------------------------------------------------------
(* The flight record between the arrival of a result and the ticks that draw it *)

\* C28: a shot result fills hit point, duration, wind and owner of the flight record and
\* sets elapsed to 0; every tick of an active flight leaves these four as they are, has
\* start, end and arc height resolved from that hit point, and draws the position that
\* these values give, also for a result that arrived in the middle of another flight
C28_WholeFlight ==
    [][/\ net'.results = net.results + 1 =>
            /\ arrowFlight'.hitPoint = PinShot(net'.results).path[1]
            /\ arrowFlight'.duration = flightDuration
            /\ arrowFlight'.wind = wind
            /\ arrowFlight'.playerIndex = playerIndexOf(room, Other)
            /\ arrowFlight'.elapsed = 0
            /\ arrowFlight'.trail = <<>>
       /\ (Tick /\ arrowFlight.active) =>
            LET f == arrowFlight'
                start == << centerX, innerHeight + startBelow >>
                end == << targetCenter[1] + f.hitPoint[1], targetCenter[2] + f.hitPoint[2] >>
                dx == end[1] - start[1]
                dy == end[2] - start[2]
            IN  /\ f.hitPoint = PinShot(net.results).path[1]
                /\ f.hitPoint = arrowFlight.hitPoint
                /\ f.duration = arrowFlight.duration
                /\ f.wind = arrowFlight.wind
                /\ f.playerIndex = arrowFlight.playerIndex
                /\ f.start = start
                /\ f.end = end
                /\ f.arcHeight = (ISqrt(dx * dx + dy * dy) * arcHeightPct) \div 100
                /\ f.active =>
                       f.trail[Len(f.trail)] =
                           flightPos(f, Min(f.elapsed, f.duration), f.duration)]_vars

\* The second result, which replaced the first flight before it landed, is in flight
\* under a wind, drawn with its own end point
C28_SecondInFlight ==
    /\ net.results = 2
    /\ hist.landed = 0
    /\ arrowFlight.active
    /\ arrowFlight.elapsed > DeltaCap
    /\ arrowFlight.wind # Origin
    /\ arrowFlight.end = << targetCenter[1] + PinShot(2).path[1][1],
                            targetCenter[2] + PinShot(2).path[1][2] >>

----------------------------------------------------------------------------
(* The impact animation and the post-shot hold *)

\* C29: between ticks an active impact animation lies within an active post-shot hold that
\* has more frames left than the animation, so no handleStart is accepted while an impact
\* animation is active
C29_ImpactWithinHold ==
    arrowImpact.active =>
        /\ postShotZoom.active
        /\ postShotZoom.timer > ImpactTotalFrames - arrowImpact.frame
        /\ \A p \in PointerPositions : ~startAccepted(p[2])

\* The last frame of an impact animation on the local player's turn, nothing in flight
C29_LastImpactFrame ==
    /\ arrowImpact.active
    /\ arrowImpact.frame = ImpactTotalFrames - 1
    /\ isMyTurn
    /\ ~isGameOver(room)
    /\ ~arrowFlight.active
    /\ ~isAiming

----------------------------------------------------------------------------
(* Game over and the two ways a 'shoot' leaves the client *)

\* C30: no step taken while the room snapshot shows game over emits a 'shoot', neither a
\* release nor the auto-fire of a tick
C30_NoShootWhenOver == [][isGameOver(room) => ~Emits]_vars
====
